---------------------------- MODULE Spec2Model ----------------------------
(***************************************************************************)
(* BookingService (src/src/booking/booking.service.ts) over its Prisma     *)
(* store.  Every `await this.prisma...` is one atomic store call; the code *)
(* between two awaits runs without interruption on the single JavaScript   *)
(* thread, so one action is: a store call completing, followed by the      *)
(* synchronous code up to the next store call (or up to the return).       *)
(* Several requests are in flight at once: one per caller in Procs.        *)
(***************************************************************************)
EXTENDS Integers, FiniteSets, Sequences, TLC

\* ------------------------------------------------------------------ bounds
\* callers that may have a request in flight at the same time
NumProcs == 2
\* requests started in one behaviour
MaxOps == 3
\* total inventory of every room (numberAvailable before any booking)
Capacity == 2
\* largest numberOfRooms a request asks for
MaxRooms == 3

\* -------------------------------------------------------------- constants
\* line 24: oneDay = 24 * 60 * 60 * 1000 ms; the model's time unit is the hour
oneDay == 24

\* ------------------------------------------------------------------- data
Procs == 1..NumProcs

\* rows of the User table; "u0" is an id that resolves to no user
Users == {"u1", "u2"}
UserIds == Users \cup {"u0"}

\* rows of the Room table; "r0" is an id that resolves to no room
Rooms == {"r1", "r2"}
RoomIds == Rooms \cup {"r0"}

\* Room.hotelId and Room.price, never written by the service
HotelOf(r) == IF r = "r1" THEN "h1" ELSE "h2"
PriceOf(r) == IF r = "r1" THEN 100 ELSE 150

\* <<checkInDate, checkOutDate>> of a request, in hours: three days, and a
\* check-out half a day before the check-in
Stays == {<<0, 72>>, <<36, 24>>}

\* booking ids a request may name: every id the store can hand out
BookingIds == 1..MaxOps

\* CreateBookingDto / UpdateBookingDto: roomId, checkInDate, checkOutDate,
\* numberOfRooms (a positive integer, validated by the transport)
Dtos ==
  {[roomId |-> r, checkInDate |-> s[1], checkOutDate |-> s[2],
    numberOfRooms |-> n] : r \in RoomIds, s \in Stays, n \in 1..MaxRooms}

\* findUnique's null
NoUser == "none"
NoRoom == [id |-> "none"]
NoBooking == [id |-> 0]
NoOp == [kind |-> "none"]
NoPre == [taken |-> FALSE]
\* a response without a payload
NoPayload == [rows |-> {}]

VARIABLES
  rooms,        \* Room table: room id -> numberAvailable
  bookings,     \* Booking table: a set of booking records
  nextId,       \* the id the store gives the next created booking
  pc,           \* where each caller's request stands
  op,           \* the request each caller is running: kind and arguments
  luser,        \* local `user`
  lroom,        \* local `room`: the row as it was read
  lbooking,     \* local `booking`: the row as it was read
  result,       \* the response of the caller's last finished request
  payload,      \* the payload of that response: the rows it carries
  opsStarted,   \* requests started so far
  pre,          \* history: a request that has run alone so far (no other
                \* caller had one in flight when it began or has run since),
                \* with the tables as they were when it began
  createsOnly   \* history: every request so far was a createBooking

vars ==
  <<rooms, bookings, nextId, pc, op, luser, lroom, lbooking, result, payload,
    opsStarted, pre, createsOnly>>

\* ------------------------------------------------------------ store reads
UserFindUnique(u) == IF u \in Users THEN u ELSE NoUser

RoomRow(r) ==
  [id |-> r, numberAvailable |-> rooms[r], price |-> PriceOf(r),
   hotelId |-> HotelOf(r)]

RoomFindUnique(r) == IF r \in Rooms THEN RoomRow(r) ELSE NoRoom

BookingExists(id) == \E b \in bookings : b.id = id

BookingFindUnique(id) ==
  IF BookingExists(id) THEN CHOOSE b \in bookings : b.id = id ELSE NoBooking

BookingFindMany(u) == {b \in bookings : b.userId = u}

\* --------------------------------------------------------- cost calculator
Abs(x) == IF x < 0 THEN -x ELSE x

\* Math.round(x / d) for x >= 0: halves round up
RoundDiv(x, d) == (2 * x + d) \div (2 * d)

\* getNumberOfNights with Math.floor in the place of Math.round
getNumberOfNightsFloor(checkInDate, checkOutDate) ==
  Abs(checkInDate - checkOutDate) \div oneDay

\* lines 23-31: Math.round(Math.abs((start - end) / oneDay))
getNumberOfNights(checkInDate, checkOutDate) ==
  RoundDiv(Abs(checkInDate - checkOutDate), oneDay)

\* ------------------------------------------------------------- responses
\* requestSuccessful; clientError, told apart by its message; serverError
Ok == "Ok"
NotFound == "NotFound"
InsufficientInventory == "InsufficientInventory"
Empty == "Empty"
StoreFailure == "StoreFailure"

Idle(p) == pc[p] \in {"idle", "done"}

\* Callers are interchangeable (who asks is an argument of the request), so
\* a new request is given to the first caller that has none in flight.
CanStart(p) ==
  /\ Idle(p)
  /\ \A q \in Procs : q < p => ~Idle(q)
  /\ opsStarted < MaxOps

\* ---------------------------------------------------------------- history
Solo(p) == pre.taken /\ pre.proc = p

\* p starts request o
StartHistory(p, o) ==
  /\ opsStarted' = opsStarted + 1
  /\ createsOnly' = (createsOnly /\ o.kind = "create")
  /\ pre' = IF \A q \in Procs \ {p} : Idle(q)
              THEN [taken |-> TRUE, proc |-> p, op |-> o, rooms |-> rooms,
                    bookings |-> bookings]
              ELSE NoPre

\* p takes a later step of its request
StepHistory(p) ==
  /\ pre' = IF Solo(p) THEN pre ELSE NoPre
  /\ UNCHANGED <<opsStarted, createsOnly>>

\* the call begins
Start(p, o) ==
  /\ CanStart(p)
  /\ StartHistory(p, o)

\* the call's first store call is answered and the request goes on
Enter(p, o, label) ==
  /\ pc' = [pc EXCEPT ![p] = label]
  /\ op' = [op EXCEPT ![p] = o]
  /\ result' = [result EXCEPT ![p] = "none"]
  /\ payload' = [payload EXCEPT ![p] = NoPayload]

\* the return: the response is sent with its payload, arguments and locals
\* go out of scope
FinishWith(p, r, rows) ==
  /\ pc' = [pc EXCEPT ![p] = "done"]
  /\ result' = [result EXCEPT ![p] = r]
  /\ payload' = [payload EXCEPT ![p] = [rows |-> rows]]
  /\ op' = [op EXCEPT ![p] = NoOp]
  /\ luser' = [luser EXCEPT ![p] = NoUser]
  /\ lroom' = [lroom EXCEPT ![p] = NoRoom]
  /\ lbooking' = [lbooking EXCEPT ![p] = NoBooking]

\* the return of a response that carries no payload
Finish(p, r) == FinishWith(p, r, {})

\* the request goes on to its next store call
Goto(p, label) ==
  /\ pc' = [pc EXCEPT ![p] = label]
  /\ UNCHANGED <<result, payload, op>>

\* ---------------------------------------------------------- createBooking
CreateOp(userId, dto) ==
  [kind |-> "create", userId |-> userId, bookingId |-> 0, dto |-> dto]

\* CreateAdmission with the admission test written <= instead of <
CreateAdmissionInclusive(user, room, dto) ==
  IF user = NoUser /\ room # NoRoom THEN NotFound
  ELSE IF room = NoRoom THEN StoreFailure
  ELSE IF dto.numberOfRooms <= room.numberAvailable THEN "admitted"
  ELSE InsufficientInventory

\* lines 41-50, 74-84: what follows room.findUnique: the existence test, then
\* the admission test; reading room.numberAvailable of a null room throws,
\* and the catch answers serverError
CreateAdmission(user, room, dto) ==
  IF user = NoUser /\ room # NoRoom THEN NotFound
  ELSE IF room = NoRoom THEN StoreFailure
  ELSE IF dto.numberOfRooms < room.numberAvailable THEN "admitted"
  ELSE InsufficientInventory

\* lines 33-50, 74-84: the call, user.findUnique, room.findUnique and the
\* tests.  No request writes the User table, so the read of the user is
\* taken at the instant of the read of the room.
CreateFindRoom(p, userId, dto) ==
  /\ Start(p, CreateOp(userId, dto))
  /\ LET user == UserFindUnique(userId)
         room == RoomFindUnique(dto.roomId)
         a == CreateAdmission(user, room, dto)
     IN IF a = "admitted"
          THEN /\ Enter(p, CreateOp(userId, dto), "c_bookingCreate")
               /\ luser' = [luser EXCEPT ![p] = user]
               /\ lroom' = [lroom EXCEPT ![p] = room]
               /\ UNCHANGED lbooking
          ELSE Finish(p, a)
  /\ UNCHANGED <<rooms, bookings, nextId>>

\* lines 33-37: the call and user.findUnique, on its own: the request waits
\* for room.findUnique with the user it read
CreateFindUser(p, userId, dto) ==
  /\ Start(p, CreateOp(userId, dto))
  /\ Enter(p, CreateOp(userId, dto), "c_findRoom")
  /\ luser' = [luser EXCEPT ![p] = UserFindUnique(userId)]
  /\ UNCHANGED <<rooms, bookings, nextId, lroom, lbooking>>

\* lines 38-50, 74-84: room.findUnique, on its own, and the tests
CreateFindRoomAfterUser(p) ==
  /\ pc[p] = "c_findRoom"
  /\ LET room == RoomFindUnique(op[p].dto.roomId)
         a == CreateAdmission(luser[p], room, op[p].dto)
     IN IF a = "admitted"
          THEN /\ Goto(p, "c_bookingCreate")
               /\ lroom' = [lroom EXCEPT ![p] = room]
               /\ UNCHANGED <<luser, lbooking>>
          ELSE Finish(p, a)
  /\ StepHistory(p)
  /\ UNCHANGED <<rooms, bookings, nextId>>

\* lines 46-50 and 108-112: nights * numberOfRooms * room.price
BookingCost(room, dto) ==
  getNumberOfNights(dto.checkInDate, dto.checkOutDate) * dto.numberOfRooms
    * room.price

\* lines 54-60: the row booking.create inserts
NewBooking(id, user, room, dto) ==
  [id |-> id, userId |-> user, roomId |-> room.id, hotelId |-> room.hotelId,
   checkInDate |-> dto.checkInDate, checkOutDate |-> dto.checkOutDate,
   numberOfRooms |-> dto.numberOfRooms, cost |-> BookingCost(room, dto)]

\* lines 52-61: booking.create
CreateBookingCreate(p) ==
  /\ pc[p] = "c_bookingCreate"
  /\ bookings' = bookings \cup {NewBooking(nextId, luser[p], lroom[p], op[p].dto)}
  /\ nextId' = nextId + 1
  /\ Goto(p, "c_roomUpdate")
  /\ StepHistory(p)
  /\ UNCHANGED <<rooms, luser, lroom, lbooking>>

\* line 66: the value room.update writes
CreateNewAvailable(room, dto) == room.numberAvailable - dto.numberOfRooms

\* lines 63-73: room.update, then the response
CreateRoomUpdate(p) ==
  /\ pc[p] = "c_roomUpdate"
  /\ rooms' = [rooms EXCEPT ![lroom[p].id] = CreateNewAvailable(lroom[p], op[p].dto)]
  /\ Finish(p, Ok)
  /\ StepHistory(p)
  /\ UNCHANGED <<bookings, nextId>>

\* ------------------------------------------------------ updateBookingById
\* userId is a parameter the method never reads
UpdateOp(bookingId, userId, dto) ==
  [kind |-> "update", userId |-> userId, bookingId |-> bookingId, dto |-> dto]

\* lines 102-112, 136-139: what follows room.findUnique: the existence test
\* of the booking alone, no admission test; reading room.price of a null
\* room throws, and the catch answers serverError
UpdateAdmission(booking, room, dto) ==
  IF booking = NoBooking THEN NotFound
  ELSE IF room = NoRoom THEN StoreFailure
  ELSE "admitted"

\* lines 88-97 (and 98-103 when the booking is null): the call and
\* booking.findUnique.  With a null booking the answer is fixed whatever
\* room.findUnique returns, and nothing is written: the request ends here.
UpdateFindBooking(p, bookingId, userId, dto) ==
  /\ Start(p, UpdateOp(bookingId, userId, dto))
  /\ LET booking == BookingFindUnique(bookingId)
     IN IF booking = NoBooking
          THEN Finish(p, UpdateAdmission(booking, RoomFindUnique(dto.roomId), dto))
          ELSE /\ Enter(p, UpdateOp(bookingId, userId, dto), "u_findRoom")
               /\ lbooking' = [lbooking EXCEPT ![p] = booking]
               /\ UNCHANGED <<luser, lroom>>
  /\ UNCHANGED <<rooms, bookings, nextId>>

\* lines 98-112: room.findUnique and the test
UpdateFindRoom(p) ==
  /\ pc[p] = "u_findRoom"
  /\ LET room == RoomFindUnique(op[p].dto.roomId)
         a == UpdateAdmission(lbooking[p], room, op[p].dto)
     IN IF a = "admitted"
          THEN /\ Goto(p, "u_roomUpdate")
               /\ lroom' = [lroom EXCEPT ![p] = room]
               /\ UNCHANGED <<luser, lbooking>>
          ELSE Finish(p, a)
  /\ StepHistory(p)
  /\ UNCHANGED <<rooms, bookings, nextId>>

\* UpdateNewAvailable without the credit of the old reservation
UpdateNewAvailableNoCredit(room, booking, dto) ==
  room.numberAvailable - dto.numberOfRooms

\* line 118: the value room.update writes
UpdateNewAvailable(room, booking, dto) ==
  room.numberAvailable + booking.numberOfRooms - dto.numberOfRooms

\* lines 114-120: room.update
UpdateRoomUpdate(p) ==
  /\ pc[p] = "u_roomUpdate"
  /\ rooms' = [rooms EXCEPT ![lroom[p].id] =
                 UpdateNewAvailable(lroom[p], lbooking[p], op[p].dto)]
  /\ Goto(p, "u_bookingUpdate")
  /\ StepHistory(p)
  /\ UNCHANGED <<bookings, nextId, luser, lroom, lbooking>>

\* lines 125-128: the row after booking.update: the dto's fields and the
\* cost are overwritten, id, userId and hotelId are kept
UpdatedBooking(b, room, dto) ==
  [b EXCEPT !.roomId = dto.roomId, !.checkInDate = dto.checkInDate,
            !.checkOutDate = dto.checkOutDate,
            !.numberOfRooms = dto.numberOfRooms,
            !.cost = BookingCost(room, dto)]

\* lines 122-139: booking.update, then the response; updating a row that is
\* gone throws, and the catch answers serverError
UpdateBookingUpdate(p) ==
  /\ pc[p] = "u_bookingUpdate"
  /\ IF BookingExists(op[p].bookingId)
       THEN /\ bookings' =
                 (bookings \ {BookingFindUnique(op[p].bookingId)})
                   \cup {UpdatedBooking(BookingFindUnique(op[p].bookingId),
                                        lroom[p], op[p].dto)}
            /\ Finish(p, Ok)
       ELSE /\ UNCHANGED bookings
            /\ Finish(p, StoreFailure)
  /\ StepHistory(p)
  /\ UNCHANGED <<rooms, nextId>>

\* ------------------------------------------------------ deleteBookingById
DeleteOp(bookingId) ==
  [kind |-> "delete", userId |-> "none", bookingId |-> bookingId]

\* lines 225-230: the call, booking.findUnique and the existence test (the
\* row read is not used again)
DeleteFindBooking(p, bookingId) ==
  /\ Start(p, DeleteOp(bookingId))
  /\ IF BookingExists(bookingId)
       THEN /\ Enter(p, DeleteOp(bookingId), "d_delete")
            /\ UNCHANGED <<luser, lroom, lbooking>>
       ELSE Finish(p, NotFound)
  /\ UNCHANGED <<rooms, bookings, nextId>>

\* lines 231-242: booking.delete, then the response; deleting a row that is
\* gone throws, and the catch answers serverError.  No room is written.
DeleteBookingDelete(p) ==
  /\ pc[p] = "d_delete"
  /\ bookings' = {b \in bookings : b.id # op[p].bookingId}
  /\ Finish(p, IF BookingExists(op[p].bookingId) THEN Ok ELSE StoreFailure)
  /\ StepHistory(p)
  /\ UNCHANGED <<rooms, nextId>>

\* ------------------------------------------------------ deleteAllBookings
DeleteAllOp(userId) ==
  [kind |-> "deleteAll", userId |-> userId, bookingId |-> 0]

\* lines 250-266: the call, user.findUnique and the existence test, then
\* booking.findMany and the test of its length (the rows read are not used
\* again).  No request writes the User table, so the read of the user is
\* taken at the instant of the read of the bookings.
DeleteAllOutcome(user, found) ==
  IF user = NoUser THEN NotFound
  ELSE IF Cardinality(found) < 1 THEN Empty
  ELSE "admitted"

DeleteAllFindMany(p, userId) ==
  /\ Start(p, DeleteAllOp(userId))
  /\ LET user == UserFindUnique(userId)
         a == DeleteAllOutcome(user, BookingFindMany(userId))
     IN IF a = "admitted"
          THEN /\ Enter(p, DeleteAllOp(userId), "da_deleteMany")
               /\ luser' = [luser EXCEPT ![p] = user]
               /\ UNCHANGED <<lroom, lbooking>>
          ELSE Finish(p, a)
  /\ UNCHANGED <<rooms, bookings, nextId>>

\* lines 267-276: booking.deleteMany, then the response.  No room is written.
DeleteAllDeleteMany(p) ==
  /\ pc[p] = "da_deleteMany"
  /\ bookings' = bookings \ BookingFindMany(op[p].userId)
  /\ Finish(p, Ok)
  /\ StepHistory(p)
  /\ UNCHANGED <<rooms, nextId>>

\* --------------------------------------------------------- getBookingById
GetOp(bookingId) ==
  [kind |-> "get", userId |-> "none", bookingId |-> bookingId]

\* lines 156-161: the payload: the row read without userId (createdAt and
\* updatedAt are not modelled); the deletes act on the object that was
\* read, not on the table
BookingView(b) ==
  [id |-> b.id, roomId |-> b.roomId, hotelId |-> b.hotelId,
   checkInDate |-> b.checkInDate, checkOutDate |-> b.checkOutDate,
   numberOfRooms |-> b.numberOfRooms, cost |-> b.cost]

\* GetBookingById with the owner removed from the stored row as well as from
\* the row returned
GetBookingByIdStripsStore(p, bookingId) ==
  /\ Start(p, GetOp(bookingId))
  /\ LET booking == BookingFindUnique(bookingId)
     IN IF booking # NoBooking
          THEN /\ FinishWith(p, Ok, {BookingView(booking)})
               /\ bookings' = (bookings \ {booking})
                                \cup {[booking EXCEPT !.userId = NoUser]}
          ELSE /\ Finish(p, NotFound)
               /\ UNCHANGED bookings
  /\ UNCHANGED <<rooms, nextId>>

\* lines 152-169: the call, booking.findUnique, the existence test and the
\* response.  No table is written.
GetBookingById(p, bookingId) ==
  /\ Start(p, GetOp(bookingId))
  /\ LET booking == BookingFindUnique(bookingId)
     IN IF booking # NoBooking
          THEN FinishWith(p, Ok, {BookingView(booking)})
          ELSE Finish(p, NotFound)
  /\ UNCHANGED <<rooms, bookings, nextId>>

\* --------------------------------------------------- getAllBookingsByUser
GetAllOp(userId) ==
  [kind |-> "getAll", userId |-> userId, bookingId |-> 0]

\* lines 183-196: a row of the payload: the row read with its hotel and
\* room joined, without hotelId, roomId and userId
BookingWithRoomView(b) ==
  [id |-> b.id, checkInDate |-> b.checkInDate,
   checkOutDate |-> b.checkOutDate, numberOfRooms |-> b.numberOfRooms,
   cost |-> b.cost, hotel |-> b.hotelId, room |-> RoomFindUnique(b.roomId)]

\* GetAllOutcome without the test of the number of rows read
GetAllOutcomeNoEmpty(user, found) ==
  IF user = NoUser THEN NotFound ELSE Ok

\* lines 180-208: the test of the user, then of the number of rows read
GetAllOutcome(user, found) ==
  IF user = NoUser THEN NotFound
  ELSE IF Cardinality(found) > 0 THEN Ok
  ELSE Empty

\* lines 177-215: the call, user.findUnique, booking.findMany, the tests
\* and the response.  No request writes the User table, so the read of the
\* user is taken at the instant of the read of the bookings.  No table is
\* written.
GetAllBookingsByUser(p, userId) ==
  /\ Start(p, GetAllOp(userId))
  /\ LET user == UserFindUnique(userId)
         found == BookingFindMany(userId)
         a == GetAllOutcome(user, found)
     IN IF a = Ok
          THEN FinishWith(p, Ok, {BookingWithRoomView(b) : b \in found})
          ELSE Finish(p, a)
  /\ UNCHANGED <<rooms, bookings, nextId>>

\* ------------------------------------------------------------------ system
Init ==
  /\ rooms = [r \in Rooms |-> Capacity]
  /\ bookings = {}
  /\ nextId = 1
  /\ pc = [p \in Procs |-> "idle"]
  /\ op = [p \in Procs |-> NoOp]
  /\ luser = [p \in Procs |-> NoUser]
  /\ lroom = [p \in Procs |-> NoRoom]
  /\ lbooking = [p \in Procs |-> NoBooking]
  /\ result = [p \in Procs |-> "none"]
  /\ payload = [p \in Procs |-> NoPayload]
  /\ opsStarted = 0
  /\ pre = NoPre
  /\ createsOnly = TRUE

Next ==
  \E p \in Procs :
    \/ \E u \in UserIds, dto \in Dtos : CreateFindRoom(p, u, dto)
    \/ CreateBookingCreate(p)
    \/ CreateRoomUpdate(p)
    \/ \E id \in BookingIds, dto \in Dtos : UpdateFindBooking(p, id, "u1", dto)
    \/ UpdateFindRoom(p)
    \/ UpdateRoomUpdate(p)
    \/ UpdateBookingUpdate(p)
    \/ \E id \in BookingIds : DeleteFindBooking(p, id)
    \/ DeleteBookingDelete(p)
    \/ \E u \in UserIds : DeleteAllFindMany(p, u)
    \/ DeleteAllDeleteMany(p)
    \/ \E id \in BookingIds : GetBookingById(p, id)
    \/ \E u \in UserIds : GetAllBookingsByUser(p, u)

Spec == Init /\ [][Next]_vars

\* ------------------------------------------------------------ store faults
\* the labels at which a request waits for the answer of a store call
Awaiting ==
  {"c_bookingCreate", "c_roomUpdate", "u_findRoom", "u_roomUpdate",
   "u_bookingUpdate", "d_delete", "da_deleteMany"}

\* lines 81-84, 136-139, 238-241, 272-275: the store call p waits for
\* errors or times out: it has no effect, the await throws, and the catch
\* of the operation answers serverError.  What the earlier calls of the
\* request wrote stays written: no call is made in a transaction.
StoreCallFails(p) ==
  /\ pc[p] \in Awaiting
  /\ Finish(p, StoreFailure)
  /\ StepHistory(p)
  /\ UNCHANGED <<rooms, bookings, nextId>>

FaultNext == Next \/ \E p \in Procs : StoreCallFails(p)

FaultSpec == Init /\ [][FaultNext]_vars

\* --------------------------------------------------- boundary requests
\* Every caller asks createBooking, as an existing user, for exactly the
\* numberAvailable of an existing room, and the requests run concurrently,
\* the two reads of each being separate steps.  The steps after admission
\* are those of Spec.
BoundaryCall(p) ==
  \E u \in Users, dto \in Dtos :
    /\ dto.roomId \in Rooms
    /\ dto.numberOfRooms = rooms[dto.roomId]
    /\ CreateFindUser(p, u, dto)

BoundaryNext ==
  \E p \in Procs :
    \/ BoundaryCall(p)
    \/ CreateFindRoomAfterUser(p)

BoundarySpec == Init /\ [][BoundaryNext]_vars

\* ------------------------------------------------------------- properties
Quiescent == \A p \in Procs : Idle(p)

RECURSIVE SumRooms(_)
SumRooms(bs) ==
  IF bs = {} THEN 0
  ELSE LET b == CHOOSE x \in bs : TRUE
       IN b.numberOfRooms + SumRooms(bs \ {b})

\* rooms of r held by the active bookings
Booked(r) == SumRooms({b \in bookings : b.roomId = r})

\* caller p's request of kind k has returned after running alone, and no
\* other request has begun since: rooms and bookings are as it left them
RanAlone(p, k) == pc[p] = "done" /\ Solo(p) /\ pre.op.kind = k

\* the row of booking id in the tables a solo request began with
PreBooking(id) == CHOOSE b \in pre.bookings : b.id = id

\* C1: whenever no request is in progress, every room's numberAvailable plus
\* the numberOfRooms of the active bookings on it equals its capacity.
C1_Conservation ==
  Quiescent => \A r \in Rooms : rooms[r] + Booked(r) = Capacity

\* C2: numberAvailable of a room is never negative and never above the
\* room's capacity.
C2_AvailableInRange == \A r \in Rooms : 0 <= rooms[r] /\ rooms[r] <= Capacity

\* two createBooking requests are past the admission test on the same room,
\* both admitted against the same numberAvailable
SameAdmission(p, q) ==
  /\ p # q
  /\ pc[p] \in {"c_bookingCreate", "c_roomUpdate"}
  /\ pc[q] \in {"c_bookingCreate", "c_roomUpdate"}
  /\ lroom[p].id = lroom[q].id
  /\ lroom[p].numberAvailable = lroom[q].numberAvailable

\* C3: among createBooking requests only, two requests are never admitted
\* against the same numberAvailable of a room, and once all have returned
\* numberAvailable is the capacity minus the rooms of the admitted bookings.
C3_NoOverCommit ==
  createsOnly =>
    /\ \A p, q \in Procs : ~SameAdmission(p, q)
    /\ Quiescent => \A r \in Rooms : rooms[r] = Capacity - Booked(r)

\* C4: every step that changes the bookings of a room changes the room's
\* numberAvailable by the opposite amount in the same step, and no step
\* changes one without the other.
C4_AtomicCommit ==
  [][\A r \in Rooms : rooms'[r] + Booked(r)' = rooms[r] + Booked(r)]_vars

\* C5: a createBooking run alone for an existing user and room, asking n
\* rooms of a room with numberAvailable k: when n < k it answers Ok, one
\* booking of n rooms on that room is added and numberAvailable is k - n;
\* when n >= k it answers InsufficientInventory and nothing changes.
C5_CreateAdmissionBoundary ==
  \A p \in Procs :
    (/\ RanAlone(p, "create")
     /\ pre.op.userId \in Users
     /\ pre.op.dto.roomId \in Rooms)
    => LET r == pre.op.dto.roomId
           n == pre.op.dto.numberOfRooms
           k == pre.rooms[r]
       IN IF n < k
            THEN /\ result[p] = Ok
                 /\ \E b \in bookings \ pre.bookings :
                      /\ bookings = pre.bookings \cup {b}
                      /\ b.numberOfRooms = n
                      /\ b.roomId = r
                      /\ b.userId = pre.op.userId
                 /\ rooms = [pre.rooms EXCEPT ![r] = k - n]
            ELSE /\ result[p] = InsufficientInventory
                 /\ bookings = pre.bookings
                 /\ rooms = pre.rooms

\* a createBooking run alone was admitted
C5_WitnessAccepted ==
  \E p \in Procs :
    /\ RanAlone(p, "create")
    /\ result[p] = Ok
    /\ pre.op.dto.numberOfRooms < pre.rooms[pre.op.dto.roomId]
    /\ Cardinality(bookings) = Cardinality(pre.bookings) + 1

\* a createBooking run alone asked exactly numberAvailable and was rejected
C5_WitnessBoundary ==
  \E p \in Procs :
    /\ RanAlone(p, "create")
    /\ result[p] = InsufficientInventory
    /\ pre.op.userId \in Users
    /\ pre.op.dto.roomId \in Rooms
    /\ pre.op.dto.numberOfRooms = pre.rooms[pre.op.dto.roomId]

\* C6: a deleteBookingById run alone on an existing booking of n rooms
\* removes the booking and leaves its room's numberAvailable n higher.
C6_DeleteCredits ==
  \A p \in Procs :
    (/\ RanAlone(p, "delete")
     /\ \E b \in pre.bookings : b.id = pre.op.bookingId)
    => LET b == PreBooking(pre.op.bookingId)
       IN /\ ~BookingExists(b.id)
          /\ rooms[b.roomId] = pre.rooms[b.roomId] + b.numberOfRooms

\* C7: a deleteAllBookings run alone for an existing user with a booking
\* removes every booking of the user and leaves every room's numberAvailable
\* higher by the rooms of the user's removed bookings on it.
C7_DeleteAllCredits ==
  \A p \in Procs :
    (/\ RanAlone(p, "deleteAll")
     /\ pre.op.userId \in Users
     /\ \E b \in pre.bookings : b.userId = pre.op.userId)
    => /\ BookingFindMany(pre.op.userId) = {}
       /\ \A r \in Rooms :
            rooms[r] = pre.rooms[r]
              + SumRooms({b \in pre.bookings :
                            b.userId = pre.op.userId /\ b.roomId = r})

\* C8: an updateBookingById run alone on an existing booking of o rooms,
\* asking n rooms of an existing room, answers Ok, leaves that room's
\* numberAvailable at its previous value + o - n, and leaves the booking
\* with the request's roomId, dates and numberOfRooms and with the cost
\* nights * n * price of that room.
C8_UpdateAdjusts ==
  \A p \in Procs :
    (/\ RanAlone(p, "update")
     /\ \E b \in pre.bookings : b.id = pre.op.bookingId
     /\ pre.op.dto.roomId \in Rooms)
    => LET old == PreBooking(pre.op.bookingId)
           dto == pre.op.dto
           r == dto.roomId
       IN /\ result[p] = Ok
          /\ rooms[r] = pre.rooms[r] + old.numberOfRooms - dto.numberOfRooms
          /\ BookingExists(old.id)
          /\ LET new == BookingFindUnique(old.id)
             IN /\ new.roomId = r
                /\ new.checkInDate = dto.checkInDate
                /\ new.checkOutDate = dto.checkOutDate
                /\ new.numberOfRooms = dto.numberOfRooms
                /\ new.cost =
                     getNumberOfNights(dto.checkInDate, dto.checkOutDate)
                       * dto.numberOfRooms * PriceOf(r)

\* an updateBookingById run alone raised a booking's numberOfRooms and took
\* the last rooms of the room it names
C8_Witness ==
  \E p \in Procs :
    /\ RanAlone(p, "update")
    /\ result[p] = Ok
    /\ \E b \in pre.bookings :
         /\ b.id = pre.op.bookingId
         /\ b.numberOfRooms < pre.op.dto.numberOfRooms
    /\ pre.rooms[pre.op.dto.roomId] > 0
    /\ rooms[pre.op.dto.roomId] = 0

\* C9: an updateBookingById run alone whose delta + o - n would take the
\* room's numberAvailable below zero answers InsufficientInventory and
\* leaves the bookings and every numberAvailable as they were.
C9_UpdateDebitRejected ==
  \A p \in Procs :
    (/\ RanAlone(p, "update")
     /\ \E b \in pre.bookings : b.id = pre.op.bookingId
     /\ pre.op.dto.roomId \in Rooms
     /\ pre.rooms[pre.op.dto.roomId]
          + PreBooking(pre.op.bookingId).numberOfRooms
          - pre.op.dto.numberOfRooms < 0)
    => /\ result[p] = InsufficientInventory
       /\ bookings = pre.bookings
       /\ rooms = pre.rooms

\* C10: a createBooking run alone for a missing user, a missing room or
\* both answers NotFound, and leaves the bookings and every numberAvailable
\* as they were.
C10_CreateNotFound ==
  \A p \in Procs :
    (/\ RanAlone(p, "create")
     /\ (pre.op.userId \notin Users \/ pre.op.dto.roomId \notin Rooms))
    => /\ result[p] = NotFound
       /\ bookings = pre.bookings
       /\ rooms = pre.rooms

\* C12: an updateBookingById run alone whose bookingId names no booking, or
\* whose dto names no room, answers NotFound and leaves the bookings and
\* every numberAvailable as they were.
C12_UpdateNotFound ==
  \A p \in Procs :
    (/\ RanAlone(p, "update")
     /\ \/ ~\E b \in pre.bookings : b.id = pre.op.bookingId
        \/ pre.op.dto.roomId \notin Rooms)
    => /\ result[p] = NotFound
       /\ bookings = pre.bookings
       /\ rooms = pre.rooms

\* an updateBookingById run alone on an existing booking named no room
C12_AbsentRoom ==
  \E p \in Procs :
    /\ RanAlone(p, "update")
    /\ \E b \in pre.bookings : b.id = pre.op.bookingId
    /\ pre.op.dto.roomId \notin Rooms

\* C13: a deleteBookingById whose booking is gone when it returns, gone at
\* its call or deleted by another request since, answers NotFound and
\* changes nothing; and the booking.create of a createBooking adds one
\* booking whose id no other booking has.
C13_DeleteNotRepeatable ==
  [][\A p \in Procs :
       /\ (\E id \in BookingIds :
             ~BookingExists(id) /\ DeleteFindBooking(p, id))
          => (result'[p] = NotFound /\ bookings' = bookings /\ rooms' = rooms)
       /\ (pc[p] = "d_delete" /\ ~BookingExists(op[p].bookingId)
           /\ pc'[p] = "done")
          => (result'[p] = NotFound /\ bookings' = bookings /\ rooms' = rooms)
       /\ (pc[p] = "c_bookingCreate" /\ pc'[p] = "c_roomUpdate")
          => \E b \in bookings' :
               /\ bookings' = bookings \cup {b}
               /\ \A c \in bookings : c.id # b.id]_vars

\* a deleteBookingById is about to delete a booking that another request
\* deleted after this one read it
C13_ConcurrentLoser ==
  \E p \in Procs : pc[p] = "d_delete" /\ ~BookingExists(op[p].bookingId)

\* the whole number of days nearest to the distance between two instants,
\* a half counting as a whole day
NearestDays(a, b) ==
  CHOOSE k \in 0..(Abs(a - b) \div oneDay + 1) :
    /\ 2 * oneDay * k - oneDay <= 2 * Abs(a - b)
    /\ 2 * Abs(a - b) < 2 * oneDay * k + oneDay

\* C15: the cost of every stored booking is the nights between its dates *
\* its numberOfRooms * the price of its room, the nights being the distance
\* between the dates in whole days, rounded to the nearest; no cost is
\* negative.
C15_CostCorrect ==
  \A b \in bookings :
    /\ b.cost = NearestDays(b.checkInDate, b.checkOutDate) * b.numberOfRooms
                  * PriceOf(b.roomId)
    /\ b.cost >= 0

\* a booking of 3 nights and 2 rooms on the room priced 100 costs 600
C15_Witness600 ==
  \E b \in bookings :
    /\ b.checkOutDate - b.checkInDate = 3 * oneDay
    /\ b.numberOfRooms = 2
    /\ PriceOf(b.roomId) = 100
    /\ b.cost = 600

\* the spec's validation outcome for a stay that does not end after it begins
InvalidRange == "InvalidRange"

\* C16: no stored booking has a checkOutDate that is not after its
\* checkInDate, and a createBooking or updateBookingById run alone with such
\* dates answers InvalidRange and leaves the bookings and every
\* numberAvailable as they were.
C16_DateRange ==
  /\ \A b \in bookings : b.checkOutDate > b.checkInDate
  /\ \A p \in Procs :
       (/\ RanAlone(p, "create") \/ RanAlone(p, "update")
        /\ pre.op.dto.checkOutDate <= pre.op.dto.checkInDate)
       => /\ result[p] = InvalidRange
          /\ bookings = pre.bookings
          /\ rooms = pre.rooms

\* a stored booking ends before it begins
C16_ReversedStay == \E b \in bookings : b.checkOutDate < b.checkInDate

\* C19: the hotelId of every stored booking is the hotel of the room its
\* roomId names.
C19_HotelConsistent == \A b \in bookings : b.hotelId = HotelOf(b.roomId)

\* a stored booking names a room of another hotel than its hotelId
C19_MovedHotel == \E b \in bookings : b.hotelId # HotelOf(b.roomId)

\* C17: a getAllBookingsByUser or deleteAllBookings run alone answers
\* NotFound when the user is absent and Empty, with no payload, when the
\* user exists and has no booking; in both cases the bookings and every
\* numberAvailable are as they were.
C17_UserScopedErrors ==
  \A p \in Procs :
    (/\ RanAlone(p, "getAll") \/ RanAlone(p, "deleteAll")
     /\ \/ pre.op.userId \notin Users
        \/ ~\E b \in pre.bookings : b.userId = pre.op.userId)
    => /\ result[p] = IF pre.op.userId \notin Users THEN NotFound ELSE Empty
       /\ payload[p] = NoPayload
       /\ bookings = pre.bookings
       /\ rooms = pre.rooms

\* a getAllBookingsByUser run alone for an existing user without bookings,
\* while another user has one
C17_WitnessEmpty ==
  \E p \in Procs :
    /\ RanAlone(p, "getAll")
    /\ pre.op.userId \in Users
    /\ bookings # {}
    /\ \A b \in bookings : b.userId # pre.op.userId
    /\ result[p] = Empty

\* a deleteAllBookings run alone for an absent user
C17_WitnessAbsent ==
  \E p \in Procs :
    /\ RanAlone(p, "deleteAll")
    /\ pre.op.userId \notin Users
    /\ bookings # {}
    /\ result[p] = NotFound

\* C18: a getBookingById or getAllBookingsByUser run alone, whatever it
\* answers, leaves the bookings, with every field of each, and every
\* numberAvailable as they were.
C18_ReadsPure ==
  \A p \in Procs :
    (RanAlone(p, "get") \/ RanAlone(p, "getAll"))
    => /\ bookings = pre.bookings
       /\ rooms = pre.rooms

\* a getBookingById run alone returned a row without the owner, and the
\* stored row still has its owner
C18_WitnessStripped ==
  \E p \in Procs :
    /\ RanAlone(p, "get")
    /\ result[p] = Ok
    /\ \E v \in payload[p].rows :
         /\ "userId" \notin DOMAIN v
         /\ v.id = pre.op.bookingId
         /\ BookingFindUnique(v.id).userId \in Users

\* a getAllBookingsByUser run alone returned rows without roomId, and the
\* stored rows still have theirs
C18_WitnessAllStripped ==
  \E p \in Procs :
    /\ RanAlone(p, "getAll")
    /\ result[p] = Ok
    /\ payload[p].rows # {}
    /\ \A v \in payload[p].rows :
         /\ "roomId" \notin DOMAIN v
         /\ BookingFindUnique(v.id).roomId \in RoomIds

\* C20: while only createBooking requests have been made, every room's
\* numberAvailable is at least 1, after each request and during it.
C20_LastUnitKept == createsOnly => \A r \in Rooms : rooms[r] >= 1

\* a createBooking run alone, after createBooking requests only, asked the
\* single room left of a room and was rejected
C20_WitnessLastUnit ==
  \E p \in Procs :
    /\ createsOnly
    /\ RanAlone(p, "create")
    /\ pre.op.userId \in Users
    /\ pre.op.dto.roomId \in Rooms
    /\ pre.rooms[pre.op.dto.roomId] = 1
    /\ pre.op.dto.numberOfRooms = 1
    /\ result[p] = InsufficientInventory
    /\ rooms[pre.op.dto.roomId] = 1

\* C14: when every request is a createBooking asking exactly the
\* numberAvailable of its room, however the requests interleave, none gets
\* past the admission test, each that has returned answered
\* InsufficientInventory, no booking exists and every numberAvailable is
\* what it was.
C14_BoundaryNoneAdmitted ==
  /\ bookings = {}
  /\ \A r \in Rooms : rooms[r] = Capacity
  /\ \A p \in Procs :
       /\ pc[p] \in {"idle", "c_findRoom", "done"}
       /\ pc[p] = "done" => result[p] = InsufficientInventory

\* of two requests for the same room in flight together, the first to be
\* answered was rejected while the other was still waiting for its room
C14_WitnessConcurrent ==
  \E p, q \in Procs :
    /\ opsStarted = 2
    /\ pc[p] = "done"
    /\ result[p] = InsufficientInventory
    /\ pc[q] = "c_findRoom"
    /\ op[q].dto.numberOfRooms = rooms[op[q].dto.roomId]

\* C11: a request run alone that answered StoreFailure left the bookings
\* and every numberAvailable as they were when it began.
C11_NoPartialEffect ==
  \A p \in Procs :
    (pc[p] = "done" /\ Solo(p) /\ result[p] = StoreFailure)
    => /\ bookings = pre.bookings
       /\ rooms = pre.rooms

\* a createBooking run alone answered StoreFailure and its booking is stored
C11_PartialCreate ==
  \E p \in Procs :
    /\ RanAlone(p, "create")
    /\ result[p] = StoreFailure
    /\ bookings # pre.bookings
    /\ rooms = pre.rooms
=============================================================================
